---- MODULE Spec2Model ----
(***************************************************************************)
(* Model of askbot/deployment/__init__.py: the AskbotSetup installer and   *)
(* the original installer askbot_setup_orig with its deploy_askbot.        *)
(*                                                                         *)
(* One behaviour is a sequence of up to MaxRuns invocations of one entry   *)
(* point (AskbotSetup.__call__ or askbot_setup_orig) with the same command *)
(* line against one persistent filesystem.  Python values are modelled as strings: None is the string  *)
(* None, an argparse integer n is "int:n", a dictionary key that was never *)
(* set is Missing.  A path is the sequence of its components, so that      *)
(* os.path.join is concatenation and the basename is the last component.   *)
(* A file's content is a sequence of chunks, each chunk a tuple.           *)
(***************************************************************************)
EXTENDS Integers, Sequences, FiniteSets, TLC

VARIABLES
    entry,       \* the entry point invoked: askbot_setup or askbot_setup_orig
    args,        \* the command line (parser.parse_args()), the same in every run
    localExists, \* os.path.exists(options['local_settings']) for a non-empty name
    cwdFiles,    \* names that are regular files in the working directory
    cwdDirs,     \* names that are directories in the working directory
    fs,          \* the filesystem: path -> [kind, data], DOMAIN fs = existing paths
    options,     \* options / options_dict of the current run (one shared dict)
    pc,          \* position inside __call__ / deploy_askbot
    directory,   \* the local "directory" of the entry point (lines 264-267)
    idx,         \* loop index of the for-loop being executed
    value,       \* the file name typed at line 655, None outside that round
    copy_list,   \* the copy_list _install_copy is iterating, <<>> outside it
    out,         \* messages handed to print / print_message in this run
    prompts,     \* console dialogs issued in this run
    ops,         \* installer operations reached in this run: <<name, path>>
    written,     \* paths whose content this run wrote
    fsStart,     \* the filesystem when this run started
    fsPrev,     \* the filesystem when the previous run ended
    run,         \* number of the current run
    exitStatus,  \* process exit status of the current run, -1 while running
    error        \* exception that ended the current run, "" if none

vars == <<entry, args, localExists, cwdFiles, cwdDirs, fs, options, pc,
          directory, idx, value, copy_list, out, prompts, ops, written, fsStart, fsPrev, run,
          exitStatus, error>>

\* Number of consecutive invocations of the installer in one behaviour.
MaxRuns == 2

----------------------------------------------------------------------------
\* Python values

None == "<None>"
Missing == "<missing>"

\* DATABASE_ENGINE_CHOICES = ('1', '2', '3', '4')
DATABASE_ENGINE_CHOICES == {"1", "2", "3", "4"}

\* database_engine_codes
database_engine_codes ==
    [c \in DATABASE_ENGINE_CHOICES |->
        CASE c = "1" -> "postgresql_psycopg2"
          [] c = "2" -> "sqlite3"
          [] c = "3" -> "mysql"
          [] c = "4" -> "oracle"]

\* path_utils constants
FILES_TO_CREATE == <<"__init__.py", "manage.py", "urls.py", "django.wsgi", "celery_app.py">>
BLANK_FILES == {"__init__.py", "manage.py"}
LOG_DIR_NAME == "log"

Range(s) == {s[i] : i \in DOMAIN s}

\* class attributes of AskbotSetup: two Python sets and a path
PROJECT_FILES_TO_CREATE == {"manage.py"}
APP_FILES_TO_CREATE == Range(FILES_TO_CREATE) \ {"manage.py"}
SOURCE_DIR == <<"ASKBOT_ROOT">>

\* the orders in which "for file_name in S" can deliver a Python set of
\* strings: the order depends on the hash seed of the process
IterationOrders(S) == {s \in [1..Cardinality(S) -> S] : Range(s) = S}

\* forced_overwrite / skip_silently arguments of the two _install_copy calls
AppForcedOverwrite == {"urls.py"}
ProjectForcedOverwrite == {}

----------------------------------------------------------------------------
\* Filesystem

Dir == [kind |-> "dir", data |-> <<>>]
File(data) == [kind |-> "file", data |-> data]

Exists(f, p) == p \in DOMAIN f
IsFile(f, p) == Exists(f, p) /\ f[p].kind = "file"
Join(p, name) == Append(p, name)
Basename(p) == p[Len(p)]
Prefixes(p) == {SubSeq(p, 1, n) : n \in 1..Len(p)}

\* path_utils.create_path: os.makedirs unless the path exists
create_path(f, p) ==
    IF Exists(f, p) THEN f
    ELSE [q \in DOMAIN f \cup Prefixes(p) |-> IF q \in DOMAIN f THEN f[q] ELSE Dir]

\* path_utils.touch: creates an empty file, keeps an existing one
touch(f, p) == IF Exists(f, p) THEN f ELSE (p :> File(<<>>)) @@ f

WriteFile(f, p, data) == (p :> File(data)) @@ f

\* content of a file of the source tree, and what shutil.copy leaves at dst
SourceData(src) == << <<"copy">> \o src >>

shutil_copy(f, src, dst) == WriteFile(f, dst, SourceData(src))

\* path_utils.has_existing_django_project: the directory holds the
\* entry-point file or another Django source file
DjangoMarkers == {"manage.py", "views.py"}
has_existing_django_project(f, d) ==
    \E m \in DjangoMarkers : IsFile(f, Join(d, m))

----------------------------------------------------------------------------
\* Command line and console

\* the two installers of the module: askbot_setup (line 457) and the
\* original one it can be set back to (line 456)
EntryPoints == {"askbot_setup", "askbot_setup_orig"}

\* values the parser can deliver
CreateProjectArgs == {"django", "None", "container-uwsgi"}
DirNameArgs == {"", "site"}
OrigDirNameArgs == {None, "site"}
VerbosityArgs == {0, 1}
AppNameArgs == {"askbot_app", "forum"}
EngineArgs == {None, "int:2", "int:3"}
OrigEngineArgs == {None, "2", "3"}
DatabaseNameArgs == {None, "", "manage.py"}
CredentialArgs == {None, "secret"}
LocalSettingsArgs == {"", "local.py"}

\* answers the operator can type
DirAnswers == {"afile", "site"}
DbFileAnswers == {"", "manage.py", "log", "adir", "old.db", "new.db"}
RequiredAnswers == {"typed"}
OptionalAnswers == {"", "typed"}
YesNo == {"yes", "no"}

\* generate_random_key(): some non-empty random string
RandomKeys == {"key-a", "key-b"}

\* str.lower on the values of --create-project
Lower(s) == IF s = "None" THEN "none" ELSE s

\* AskbotSetup._set_create_project: the value of self._todo['create_project']
set_create_project(wish) ==
    IF Lower(wish) \in {"no", "none", "false", "0"} THEN {"nothing"}
    ELSE IF Lower(wish) = "container-uwsgi" THEN {"django", "container-uwsgi"}
    ELSE {"django"}

\* path_utils.clean_directory: the usable directory, or None
clean_directory(name) == IF name \in {None, "", "afile"} THEN None ELSE name

\* path_utils.get_install_directory: asks, returns the directory or None
get_install_directory(answer) == clean_directory(answer)

\* the dictionary vars(options) right after parse_args(); the parser of
\* askbot_setup_orig has no --create-project, --app-name, --dry-run, --no-input
ParsedOptions(e, a) ==
    [create_project |-> IF e = "askbot_setup" THEN a.create_project ELSE Missing,
     dir_name |-> a.dir_name, verbosity |-> a.verbosity,
     app_name |-> IF e = "askbot_setup" THEN a.app_name ELSE Missing,
     force |-> a.force,
     dry_run |-> IF e = "askbot_setup" THEN a.dry_run ELSE Missing,
     interactive |-> IF e = "askbot_setup" THEN a.interactive ELSE Missing,
     no_secret_key |-> a.no_secret_key,
     local_settings |-> a.local_settings, logfile_name |-> a.logfile_name,
     database_engine |-> a.database_engine, database_name |-> a.database_name,
     database_user |-> a.database_user,
     database_password |-> a.database_password,
     database_host |-> a.database_host, database_port |-> a.database_port,
     secret_key |-> Missing, askbot_site |-> Missing, askbot_app |-> Missing,
     staticfiles_app |-> Missing, auth_context_processor |-> Missing]

\* db_keys of collect_missing_options, in order, with the required flag
db_keys == <<"database_name", "database_user", "database_password",
             "database_host", "database_port">>
db_required == [k \in Range(db_keys) |->
                  k \in {"database_name", "database_user", "database_password"}]

\* messages
Msg(kind, a, b) == <<kind, a, b>>
Note(kind) == <<kind, <<>>, <<>>>>

----------------------------------------------------------------------------
\* Initial states

\* target trees found before the first run
Root == <<"site">>
AppDir0 == Join(Root, "askbot_app")
UserData == << <<"user">> >>
EmptyTree == [p \in {} |-> Dir]
BareTree == (Root :> Dir)
ForeignProjectTree == (Root :> Dir) @@ (Join(Root, "views.py") :> File(UserData))
PriorAppTree ==
    (Root :> Dir) @@ (AppDir0 :> Dir)
    @@ (Join(AppDir0, "settings.py") :> File(UserData))
    @@ (Join(AppDir0, "urls.py") :> File(UserData))
    @@ (Join(AppDir0, "__init__.py") :> File(UserData))
    @@ (Join(AppDir0, "django.wsgi") :> File(UserData))
InitialTrees == {EmptyTree, BareTree, ForeignProjectTree, PriorAppTree}

\* the command lines of an entry point; an option the parser of
\* askbot_setup_orig does not have keeps the one value that stands for it
ArgSpace(e) ==
    IF e = "askbot_setup"
    THEN [create_project : CreateProjectArgs, dir_name : DirNameArgs,
          verbosity : VerbosityArgs,
          app_name : AppNameArgs, force : BOOLEAN, dry_run : BOOLEAN,
          interactive : BOOLEAN, no_secret_key : BOOLEAN,
          local_settings : LocalSettingsArgs, logfile_name : {"askbot.log"},
          database_engine : EngineArgs, database_name : DatabaseNameArgs,
          database_user : CredentialArgs, database_password : CredentialArgs,
          database_host : CredentialArgs, database_port : CredentialArgs]
    ELSE [create_project : {"django"}, dir_name : OrigDirNameArgs,
          verbosity : VerbosityArgs,
          app_name : {"askbot_app"}, force : BOOLEAN, dry_run : {FALSE},
          interactive : {TRUE}, no_secret_key : BOOLEAN,
          local_settings : LocalSettingsArgs, logfile_name : {"askbot.log"},
          database_engine : OrigEngineArgs, database_name : DatabaseNameArgs,
          database_user : CredentialArgs, database_password : CredentialArgs,
          database_host : CredentialArgs, database_port : CredentialArgs]

\* Runs that exercise the resolution of the options: any flags and database
\* values, a fresh target, the default project kind.
ResolveScenario(a, tree, le, files) ==
    /\ a.create_project = "django" /\ a.local_settings = ""
    /\ a.verbosity = 1
    /\ a.dry_run \/ (a.app_name = "askbot_app" /\ files = {"old.db"})
    /\ a.database_user = a.database_password
    /\ a.database_host = None /\ a.database_port = None
    /\ tree = EmptyTree /\ le = FALSE

\* Runs that exercise the installer: any project kind, target tree and
\* local-settings file, with the database values given on the command line.
InstallScenario(a, tree, le, files) ==
    /\ a.dir_name = "site" /\ a.interactive
    /\ ~a.dry_run
    /\ a.database_engine = None /\ a.database_name = "manage.py"
    /\ a.database_user = "secret" /\ a.database_password = "secret"
    /\ a.database_host = "secret" /\ a.database_port = "secret"
    /\ files = {"old.db"}
    /\ (le => a.local_settings /= "")

\* Repeated runs: as the installer runs, with the directory, the dry-run flag
\* and the database name left open.
RepeatScenario(a, tree, le, files) ==
    /\ a.app_name = "askbot_app" /\ a.interactive /\ a.verbosity = 1
    /\ a.database_engine = None /\ a.database_name \in {None, "manage.py"}
    /\ a.database_user = "secret" /\ a.database_password = "secret"
    /\ a.database_host = "secret" /\ a.database_port = "secret"
    /\ files = {"old.db"}
    /\ (le => a.local_settings /= "")

\* Runs of the original installer: any of its command lines without a
\* local-settings file, any target tree.
OrigScenario(a, tree, le, files) ==
    /\ a.local_settings = "" /\ le = FALSE
    /\ a.database_user = a.database_password
    /\ a.database_host = None /\ a.database_port = None

\* Repeated runs of the original installer: the database values given on the
\* command line.
OrigRepeatScenario(a, tree, le, files) ==
    /\ OrigScenario(a, tree, le, files)
    /\ a.verbosity = 1
    /\ a.database_name = "manage.py" /\ a.database_user = "secret"
    /\ files = {"old.db"}

\* the state after AskbotSetup.__init__ and before __call__, for any scenario
InitAny ==
    /\ entry \in EntryPoints
    /\ args \in ArgSpace(entry)
    /\ fs \in InitialTrees
    /\ localExists \in BOOLEAN
    /\ cwdFiles \in {{"old.db"}, {"old.db", "manage.py"}}
    /\ cwdDirs = {"adir"}
    /\ options = ParsedOptions(entry, args)
    /\ pc = "start"
    /\ directory = None
    /\ idx = 0
    /\ value = None
    /\ copy_list = <<>>
    /\ out = {}
    /\ prompts = {}
    /\ ops = {}
    /\ written = {}
    /\ fsStart = fs
    /\ fsPrev = fs
    /\ run = 1
    /\ exitStatus = -1
    /\ error = ""

AnyScenario(a, tree, le, files) ==
    ResolveScenario(a, tree, le, files) \/ InstallScenario(a, tree, le, files)

Init ==
    /\ InitAny
    /\ IF entry = "askbot_setup"
       THEN AnyScenario(args, fs, localExists, cwdFiles)
       ELSE OrigScenario(args, fs, localExists, cwdFiles)

InitRepeat ==
    /\ InitAny
    /\ IF entry = "askbot_setup"
       THEN RepeatScenario(args, fs, localExists, cwdFiles)
       ELSE OrigRepeatScenario(args, fs, localExists, cwdFiles)

----------------------------------------------------------------------------
\* AskbotSetup.__call__ and askbot_setup_orig: resolution of the options
\* (lines 258-291 and the same statements at lines 558-588)

\* sys.exit(status), or an exception that nothing catches
Exit(status, exc) ==
    /\ pc' = "done"
    /\ exitStatus' = status
    /\ error' = exc

Running(next) ==
    /\ pc' = next
    /\ UNCHANGED <<exitStatus, error>>

\* line 261, and lines 562-563 of askbot_setup_orig, which prints the
\* preamble itself and only "if options.verbosity >= 1"
Preamble(e, a) ==
    IF e = "askbot_setup_orig" /\ ~(a.verbosity >= 1) THEN {}
    ELSE {Note("DEPLOY_PREAMBLE")}

\* line 267 (568): options.dir_name = directory, reached when the loop of
\* line 265 has ended
SetDirName(o, dir) == IF dir = None THEN o ELSE [o EXCEPT !.dir_name = dir]

\* lines 258-264 (558-565): parse_args, _set_verbosity, _set_create_project,
\* the preamble, clean_directory; and line 267 when the loop is not entered
Start ==
    /\ pc = "start"
    /\ directory' = clean_directory(args.dir_name)
    /\ options' = SetDirName(ParsedOptions(entry, args), directory')
    /\ out' = Preamble(entry, args)
    /\ prompts' = {}
    /\ ops' = {}
    /\ written' = {}
    /\ fsStart' = fs
    /\ idx' = 0
    /\ value' = None
    /\ copy_list' = <<>>
    /\ Running(IF directory' = None THEN "ask_dir" ELSE "engine")
    /\ UNCHANGED <<entry, args, localExists, cwdFiles, cwdDirs, fs, fsPrev, run>>

\* lines 265-267 (566-568): one round of "while directory is None", and
\* line 267 when the answer ends the loop
AskInstallDirectory ==
    /\ pc = "ask_dir"
    /\ \E answer \in DirAnswers : directory' = get_install_directory(answer)
    /\ options' = SetDirName(options, directory')
    /\ Running(IF directory' = None THEN "ask_dir" ELSE "engine")
    /\ prompts' = prompts \cup {"dir_name"}
    /\ UNCHANGED <<entry, args, localExists, cwdFiles, cwdDirs, fs,
                   idx, value, copy_list, out, ops, written, fsStart,
                   fsPrev, run>>

\* line 269: options.database_engine not in DATABASE_ENGINE_CHOICES
EngineNeedsDialog(o) == o.database_engine \notin DATABASE_ENGINE_CHOICES

\* lines 269-274: the engine, asked with console.choice_dialog
SelectEngine ==
    /\ pc = "engine"
    /\ IF EngineNeedsDialog(options)
       THEN /\ \E answer \in DATABASE_ENGINE_CHOICES :
                 options' = [options EXCEPT !.database_engine = answer]
            /\ prompts' = prompts \cup {"database_engine"}
       ELSE UNCHANGED <<options, prompts>>
    /\ Running("collect")
    /\ UNCHANGED <<entry, args, localExists, cwdFiles, cwdDirs, directory,
                   fs, idx, value, copy_list, out, ops, written, fsStart,
                   fsPrev, run>>

\* line 650: options_dict['secret_key']
SecretKeys(o) == IF o.no_secret_key THEN {""} ELSE RandomKeys

\* line 281: "if options.force is False" guards collect_missing_options
CollectsMissing(o) == o.force = FALSE

\* lines 281-282 with force set: collect_missing_options is not called
SkipCollect ==
    /\ pc = "collect"
    /\ ~CollectsMissing(options)
    /\ Running("map")
    /\ UNCHANGED <<entry, args, localExists, cwdFiles, cwdDirs, fs, options,
                   directory, idx, value, copy_list, out, prompts, ops,
                   written, fsStart, fsPrev, run>>

\* lines 650-653 and 676-684: entry of collect_missing_options
CollectMissingOptions ==
    /\ pc = "collect"
    /\ CollectsMissing(options)
    /\ \E key \in SecretKeys(options) :
         options' = [options EXCEPT !.secret_key = key]
    /\ IF options.database_engine = "2"
       THEN /\ Running(IF options.database_name \notin {None, ""}
                       THEN "map" ELSE "ask_dbfile")
            /\ idx' = 0
       ELSE /\ Running("ask_db")
            /\ idx' = 1
    /\ UNCHANGED <<entry, args, localExists, cwdFiles, cwdDirs, directory,
                   value, copy_list, fs, out, prompts, ops, written, fsStart,
                   fsPrev, run>>

\* lines 658-670: the file name accepted for the answer v, None if the
\* answer is turned down; confirm is the answer to "use it anyway?"
DatabaseFileName(v, confirm, files, dirs) ==
    IF v \in files
    THEN (IF confirm = "yes" THEN v ELSE None)
    ELSE IF v \in dirs THEN None
    ELSE IF v \in Range(FILES_TO_CREATE) THEN None
    ELSE IF v = LOG_DIR_NAME THEN None
    ELSE v

\* what lines 663-668 print for an answer that is turned down
DatabaseFileComplaint(v, files, dirs) ==
    IF v \in files THEN {}
    ELSE IF v \in dirs THEN {Msg("is a directory", <<v>>, <<>>)}
    ELSE IF v \in Range(FILES_TO_CREATE) \cup {LOG_DIR_NAME}
         THEN {Msg("cannot be used", <<v>>, <<>>)}
    ELSE {}

\* lines 672-674: the round ends, with the name accepted or the loop going on
EndDatabaseFileRound(name) ==
    /\ options' = IF name \notin {None, ""}
                  THEN [options EXCEPT !.database_name = name]
                  ELSE options
    /\ value' = None
    /\ Running(IF name \notin {None, ""} THEN "map" ELSE "ask_dbfile")

\* lines 654-659 and 663-674: one round of the "while True" of the sqlite
\* branch up to the answer of console.simple_dialog; an answer that names an
\* existing file leaves the run at the dialog of line 661
AskDatabaseFile ==
    /\ pc = "ask_dbfile"
    /\ prompts' = prompts \cup {"database_name"}
    /\ \E answer \in DbFileAnswers :
         IF answer \in cwdFiles
         THEN /\ value' = answer
              /\ Running("confirm_dbfile")
              /\ UNCHANGED <<options, out>>
         ELSE /\ out' = out \cup DatabaseFileComplaint(answer, cwdFiles, cwdDirs)
              /\ EndDatabaseFileRound(
                    DatabaseFileName(answer, "no", cwdFiles, cwdDirs))
    /\ UNCHANGED <<entry, args, localExists, cwdFiles, cwdDirs, directory,
                   fs, idx, copy_list, ops, written, fsStart, fsPrev, run>>

\* lines 660-662 and 672-674: the answer to "file ... exists, use it anyway?"
ConfirmDatabaseFile ==
    /\ pc = "confirm_dbfile"
    /\ prompts' = prompts \cup {"use it anyway"}
    /\ \E confirm \in YesNo :
         EndDatabaseFileRound(DatabaseFileName(value, confirm, cwdFiles, cwdDirs))
    /\ UNCHANGED <<entry, args, localExists, cwdFiles, cwdDirs, directory,
                   fs, idx, copy_list, out, ops, written, fsStart, fsPrev,
                   run>>

\* console.simple_dialog(required=...): the stripped answer, never empty
\* when required
DialogAnswers(required) == IF required THEN RequiredAnswers ELSE OptionalAnswers

\* line 685: "if options_dict[key] is None"
KeyNeedsDialog(o, key) == o[key] = None

\* lines 684-697: one round of the loop over db_keys, and the return
AskDatabaseKey ==
    /\ pc = "ask_db"
    /\ IF idx > Len(db_keys)
       THEN /\ Running("map")
            /\ UNCHANGED <<options, prompts, idx>>
       ELSE /\ IF KeyNeedsDialog(options, db_keys[idx])
               THEN /\ \E answer \in DialogAnswers(db_required[db_keys[idx]]) :
                         options' = [options EXCEPT ![db_keys[idx]] = answer]
                    /\ prompts' = prompts \cup {db_keys[idx]}
               ELSE UNCHANGED <<options, prompts>>
            /\ idx' = idx + 1
            /\ Running("ask_db")
    /\ UNCHANGED <<entry, args, localExists, cwdFiles, cwdDirs, directory,
                   value, copy_list, fs, out, ops, written, fsStart, fsPrev,
                   run>>

\* the dialog the run is blocked in, "" if it is not at a dialog
PendingDialog ==
    CASE pc = "ask_dir" -> "dir_name"
      [] pc = "engine" /\ EngineNeedsDialog(options) -> "database_engine"
      [] pc = "ask_dbfile" -> "database_name"
      [] pc = "confirm_dbfile" -> "use it anyway"
      [] pc = "ask_db" /\ idx <= Len(db_keys)
           /\ KeyNeedsDialog(options, db_keys[idx]) -> db_keys[idx]
      [] OTHER -> ""

\* lines 317-319 (605-607): the operator interrupts the run, at a dialog or
\* anywhere else inside the try block; the frames of the functions called
\* are unwound, and with them idx, value and copy_list
Interrupt ==
    /\ pc /= "done"
    /\ prompts' = prompts \cup (IF PendingDialog /= "" THEN {PendingDialog} ELSE {})
    /\ out' = out \cup {Note("Aborted.")}
    /\ idx' = 0
    /\ value' = None
    /\ copy_list' = <<>>
    /\ Exit(1, "KeyboardInterrupt")
    /\ UNCHANGED <<entry, args, localExists, cwdFiles, cwdDirs, fs, options,
                   directory, ops, written, fsStart, fsPrev, run>>

\* a dry run that goes on to install
DryRunIgnored(o) == FALSE

\* line 293: "if options_dict['dry_run']"
DryRunRequested(o) == o.dry_run

\* lines 284-293 (581-590): the engine code is replaced by the backend name;
\* askbot_setup_orig has no dry run and goes on to the function deploy_askbot
MapEngine ==
    /\ pc = "map"
    /\ options' = [options EXCEPT
                     !.database_engine = database_engine_codes[options.database_engine]]
    /\ Running(IF entry = "askbot_setup_orig" THEN "deploy_orig"
               ELSE IF DryRunRequested(options) THEN "dry_run" ELSE "deploy")
    /\ UNCHANGED <<entry, args, localExists, cwdFiles, cwdDirs, directory,
                   fs, idx, value, copy_list, out, prompts, ops, written,
                   fsStart, fsPrev, run>>

\* lines 293-300 and 317-319: the dry run dumps the options and raises
\* KeyboardInterrupt, which __call__ turns into exit status 1.
\* configManagers.complete works on a deep copy of the options and its
\* result is only printed, so it changes nothing of the state kept here.
DryRun ==
    /\ pc = "dry_run"
    /\ out' = out \cup {Note("pprint"), Note("Aborted.")}
    /\ Exit(1, "KeyboardInterrupt")
    /\ UNCHANGED <<entry, args, localExists, cwdFiles, cwdDirs, fs, options,
                   directory, idx, value, copy_list, prompts, ops, written,
                   fsStart, fsPrev, run>>

----------------------------------------------------------------------------
\* AskbotSetup.deploy_askbot and the installer

\* self._todo['create_project'] of the run
Todo(o) == set_create_project(o.create_project)

\* line 441: the app name deploy_askbot hands to _create_new_django_app
DeployedAppName(o) == "askbot_app"

InstallDir(o) == <<o.dir_name>>
LogDir(o) == Join(InstallDir(o), LOG_DIR_NAME)
LogFile(o) == Join(LogDir(o), o.logfile_name)
AppDir(o) == Join(InstallDir(o), DeployedAppName(o))
SettingsFile(o) == Join(AppDir(o), "settings.py")

SetupTemplate(x) == SOURCE_DIR \o <<"setup_templates", x>>
ContainerFile(x) == SOURCE_DIR \o <<"container", x>>

\* lines 429-433: "True", or the exception the test raises; options is the
\* dictionary vars(options), which has no attribute "force"
create_new_project(f, o) ==
    IF Exists(f, InstallDir(o)) /\ has_existing_django_project(f, InstallDir(o))
    THEN "AttributeError"
    ELSE "True"

\* lines 423-438
DeployAskbot ==
    /\ pc = "deploy"
    /\ ops' = ops \cup {<<"deploy_askbot", InstallDir(options)>>}
    /\ IF create_new_project(fs, options) = "AttributeError"
       THEN /\ Exit(1, "AttributeError")
            /\ UNCHANGED options
       ELSE /\ options' = [options EXCEPT
                             !.staticfiles_app = "'django.contrib.staticfiles',",
                             !.auth_context_processor =
                                 "django.contrib.auth.context_processors.auth"]
            /\ Running("project")
    /\ UNCHANGED <<entry, args, localExists, cwdFiles, cwdDirs, directory,
                   fs, idx, value, copy_list, out, prompts, written, fsStart,
                   fsPrev, run>>

\* lines 359-365: copy_me of _create_new_django_project, the set
\* PROJECT_FILES_TO_CREATE being iterated in the given order
ProjectCopyList(o, order) ==
    IF "django" \in Todo(o)
    THEN [i \in DOMAIN order |->
            <<SetupTemplate(order[i]), Join(InstallDir(o), order[i])>>]
    ELSE <<>>

\* lines 382-399: copy_me of _create_new_django_app, the set
\* APP_FILES_TO_CREATE being iterated in the given order
ContainerCopies == <<"cron-askbot.sh", "prestart.sh", "prestart.py">>
AppCopyList(o, order) ==
    (IF "django" \in Todo(o)
     THEN [i \in DOMAIN order |->
             <<SetupTemplate(order[i]), Join(AppDir(o), order[i])>>]
     ELSE <<>>)
    \o
    (IF "container-uwsgi" \in Todo(o)
     THEN [i \in DOMAIN ContainerCopies |->
             <<ContainerFile(ContainerCopies[i]), Join(AppDir(o), ContainerCopies[i])>>]
     ELSE <<>>)

\* lines 389-403: render_me of _create_new_django_app
ContainerRenders == <<"crontab", "uwsgi.ini">>
RenderList(o) ==
    (IF "django" \in Todo(o)
     THEN << <<SetupTemplate("settings.py.jinja2"), SettingsFile(o)>> >>
     ELSE <<>>)
    \o
    (IF "container-uwsgi" \in Todo(o)
     THEN [i \in DOMAIN ContainerRenders |->
             <<ContainerFile(ContainerRenders[i]), Join(AppDir(o), ContainerRenders[i])>>]
     ELSE <<>>)

\* a copy that writes over every existing file it does not skip silently
CopyDecisionOverwriting(f, dst, forced, skip) ==
    IF ~Exists(f, dst) THEN "copy"
    ELSE IF Basename(dst) \notin skip THEN "overwrite"
    ELSE "skip"

\* lines 326-335: the decision of _install_copy for one (src, dst)
CopyDecision(f, dst, forced, skip) ==
    IF ~Exists(f, dst) THEN "copy"
    ELSE IF Len(dst) > 1 /\ Basename(dst) \in forced THEN "overwrite"
    ELSE IF Basename(dst) \notin skip THEN "advise"
    ELSE "skip"

\* lines 325-335: the filesystem after _install_copy handled (src, dst)
install_copy(f, src, dst, forced, skip) ==
    IF CopyDecision(f, dst, forced, skip) \in {"copy", "overwrite"}
    THEN shutil_copy(f, src, dst)
    ELSE f

\* lines 325, 332, 335: the messages of _install_copy for (src, dst)
CopyMessages(f, src, dst, forced, skip) ==
    {Msg("to from", dst, src)}
    \cup (IF CopyDecision(f, dst, forced, skip) = "overwrite"
          THEN {Msg("forced overwrite", dst, <<>>)} ELSE {})
    \cup (IF CopyDecision(f, dst, forced, skip) = "advise"
          THEN {Msg("you already have one", dst, src)} ELSE {})

\* the template context: the values of the options dictionary
Context(o) ==
    <<o.database_engine, o.database_name, o.database_user, o.database_password,
      o.database_host, o.database_port, o.secret_key, o.askbot_site,
      o.askbot_app, o.staticfiles_app, o.auth_context_processor,
      o.local_settings, o.logfile_name>>

\* DeploymentTemplate.render: the text of template src for a context
RenderedData(src, o) == << <<"render">> \o src \o <<"with">> \o Context(o) >>

\* a render that writes over an existing destination
install_render_overwriting(f, src, dst, o) == WriteFile(f, dst, RenderedData(src, o))

\* lines 342-349: the filesystem after _install_render_with_jinja2 handled
\* (src, dst)
install_render(f, src, dst, o) ==
    IF Exists(f, dst) THEN f ELSE WriteFile(f, dst, RenderedData(src, o))

\* lines 343, 345: the message for (src, dst)
RenderMessages(f, src, dst) ==
    IF Exists(f, dst)
    THEN {Msg("please merge the contents", dst, <<>>)}
    ELSE {Msg("from", dst, src)}

\* line 413-414: the condition of the append
AppendsLocalSettings(o, le) == o.local_settings /= "" /\ le

\* lines 417-420: open(dst, 'a'), write('\n'), write(local_settings.read())
LocalData(name) == << <<"local settings", name>> >>
append_settings(f, dst, name) ==
    WriteFile(f, dst,
              (IF Exists(f, dst) THEN f[dst].data ELSE <<>>)
              \o << <<"\n">> >> \o LocalData(name))

\* paths of g whose content differs from f
Changed(f, g) == {p \in DOMAIN g : ~Exists(f, p) \/ f[p] /= g[p]}

\* lines 352-371: _create_new_django_project up to the call of _install_copy
CreateProject ==
    /\ pc = "project"
    /\ LET made == create_path(create_path(fs, InstallDir(options)), LogDir(options))
       IN /\ fs' = touch(made, LogFile(options))
          /\ written' = written \cup Changed(fs, fs')
    /\ ops' = ops \cup {<<"create_path", InstallDir(options)>>,
                        <<"create_path", LogDir(options)>>,
                        <<"touch", LogFile(options)>>}
    /\ out' = out \cup {Note("Copying files:")}
    /\ \E order \in IterationOrders(PROJECT_FILES_TO_CREATE) :
         copy_list' = ProjectCopyList(options, order)
    /\ idx' = 1
    /\ Running("project_copy")
    /\ UNCHANGED <<entry, args, localExists, cwdFiles, cwdDirs, options,
                   directory, value, prompts, fsStart, fsPrev, run>>

\* lines 324-336 for the call of line 371: one round of the loop, and its end
CopyProjectFile ==
    /\ pc = "project_copy"
    /\ LET list == copy_list
       IN IF idx > Len(list)
          THEN /\ out' = out \cup {Note("Done.")}
               /\ copy_list' = <<>>
               /\ Running("app")
               /\ UNCHANGED <<fs, ops, written, idx>>
          ELSE LET src == list[idx][1]
                   dst == list[idx][2]
               IN /\ fs' = install_copy(fs, src, dst, ProjectForcedOverwrite, BLANK_FILES)
                  /\ UNCHANGED copy_list
                  /\ out' = out \cup CopyMessages(fs, src, dst,
                                                  ProjectForcedOverwrite, BLANK_FILES)
                  /\ ops' = ops \cup {<<"copy", dst>>}
                  /\ written' = written \cup Changed(fs, fs')
                  /\ idx' = idx + 1
                  /\ Running("project_copy")
    /\ UNCHANGED <<entry, args, localExists, cwdFiles, cwdDirs, options,
                   directory, value, prompts, fsStart, fsPrev, run>>

\* lines 373-408: _create_new_django_app up to the call of _install_copy
CreateApp ==
    /\ pc = "app"
    /\ options' = [options EXCEPT !.askbot_site = options.dir_name,
                                  !.askbot_app = DeployedAppName(options)]
    /\ fs' = create_path(fs, AppDir(options))
    /\ written' = written \cup Changed(fs, fs')
    /\ ops' = ops \cup {<<"create_path", AppDir(options)>>}
    /\ out' = out \cup {Note("Copying files:")}
    /\ \E order \in IterationOrders(APP_FILES_TO_CREATE) :
         copy_list' = AppCopyList(options, order)
    /\ idx' = 1
    /\ Running("app_copy")
    /\ UNCHANGED <<entry, args, localExists, cwdFiles, cwdDirs, directory,
                   value, prompts, fsStart, fsPrev, run>>

\* lines 324-336 for the call of lines 408-409, then line 339
CopyAppFile ==
    /\ pc = "app_copy"
    /\ LET list == copy_list
       IN IF idx > Len(list)
          THEN /\ out' = out \cup {Note("Done."), Note("Rendering files:")}
               /\ copy_list' = <<>>
               /\ idx' = 1
               /\ Running("render")
               /\ UNCHANGED <<fs, ops, written>>
          ELSE LET src == list[idx][1]
                   dst == list[idx][2]
               IN /\ fs' = install_copy(fs, src, dst, AppForcedOverwrite, BLANK_FILES)
                  /\ UNCHANGED copy_list
                  /\ out' = out \cup CopyMessages(fs, src, dst,
                                                  AppForcedOverwrite, BLANK_FILES)
                  /\ ops' = ops \cup {<<"copy", dst>>}
                  /\ written' = written \cup Changed(fs, fs')
                  /\ idx' = idx + 1
                  /\ Running("app_copy")
    /\ UNCHANGED <<entry, args, localExists, cwdFiles, cwdDirs, options,
                   directory, value, prompts, fsStart, fsPrev, run>>

\* lines 341-350: one round of the loop of _install_render_with_jinja2
RenderFile ==
    /\ pc = "render"
    /\ LET list == RenderList(options)
       IN IF idx > Len(list)
          THEN /\ out' = out \cup {Note("Done.")}
               /\ Running("append")
               /\ UNCHANGED <<fs, ops, written, idx>>
          ELSE LET src == list[idx][1]
                   dst == list[idx][2]
               IN /\ fs' = install_render(fs, src, dst, options)
                  /\ out' = out \cup RenderMessages(fs, src, dst)
                  /\ ops' = ops \cup {<<"render", dst>>}
                  /\ written' = written \cup Changed(fs, fs')
                  /\ idx' = idx + 1
                  /\ Running("render")
    /\ UNCHANGED <<entry, args, localExists, cwdFiles, cwdDirs, options,
                   directory, value, copy_list, prompts, fsStart, fsPrev,
                   run>>

\* lines 413-421
AppendSettings ==
    /\ pc = "append"
    /\ IF AppendsLocalSettings(options, localExists)
       THEN /\ fs' = append_settings(fs, SettingsFile(options), options.local_settings)
            /\ out' = out \cup {Msg("Appending", SettingsFile(options),
                                    <<options.local_settings>>), Note("Done.")}
            /\ ops' = ops \cup {<<"append", SettingsFile(options)>>}
            /\ written' = written \cup {SettingsFile(options)}
       ELSE UNCHANGED <<fs, out, ops, written>>
    /\ Running("finish")
    /\ UNCHANGED <<entry, args, localExists, cwdFiles, cwdDirs, options,
                   directory, idx, value, copy_list, prompts, fsStart,
                   fsPrev, run>>

\* lines 443-449: the closing message of the method deploy_askbot, which is
\* reached only with create_new_project True
Finish ==
    /\ pc = "finish"
    /\ out' = out \cup {Note("HOW_TO_DEPLOY_NEW")}
    /\ Running("hints")
    /\ UNCHANGED <<entry, args, localExists, cwdFiles, cwdDirs, fs, options,
                   directory, idx, value, copy_list, prompts, ops, written,
                   fsStart, fsPrev, run>>

\* lines 616-619: new_project of the function deploy_askbot
orig_create_new_project(f, o) ==
    IF Exists(f, InstallDir(o)) /\ has_existing_django_project(f, InstallDir(o))
    THEN o.force
    ELSE TRUE

\* the files deploy_into installs, as (source, destination) pairs
DeployIntoProjectCopies(o) ==
    << <<SetupTemplate("manage.py"), Join(InstallDir(o), "manage.py")>> >>
DeployIntoAppCopies(o) ==
    LET names == SelectSeq(FILES_TO_CREATE, LAMBDA f : f /= "manage.py")
    IN [i \in DOMAIN names |->
          <<SetupTemplate(names[i]), Join(AppDir(o), names[i])>>]

\* a copy list installed item by item under the copy policy
RECURSIVE CopyAll(_, _, _, _)
CopyAll(f, list, forced, skip) ==
    IF list = <<>> THEN f
    ELSE CopyAll(install_copy(f, Head(list)[1], Head(list)[2], forced, skip),
                 Tail(list), forced, skip)

\* path_utils.deploy_into(directory, new_project, verbosity, context): the
\* project-level files for a new project (root and log directory, log file,
\* entry point), then the app directory, its copies and the rendered
\* settings, with the local settings appended to a freshly rendered file
deploy_into(f, o, new_project, le) ==
    LET f1 == IF new_project
              THEN CopyAll(touch(create_path(create_path(f, InstallDir(o)),
                                             LogDir(o)), LogFile(o)),
                           DeployIntoProjectCopies(o),
                           ProjectForcedOverwrite, BLANK_FILES)
              ELSE f
        f2 == CopyAll(create_path(f1, AppDir(o)), DeployIntoAppCopies(o),
                      AppForcedOverwrite, BLANK_FILES)
        f3 == install_render(f2, SetupTemplate("settings.py.jinja2"),
                             SettingsFile(o), o)
    IN IF ~Exists(f2, SettingsFile(o)) /\ AppendsLocalSettings(o, le)
       THEN append_settings(f3, SettingsFile(o), o.local_settings)
       ELSE f3

\* the advisory messages of deploy_into: the files it found and left alone
DeployIntoMessages(f, o, new_project) ==
    {Msg("you already have one", item[2], item[1]) :
       item \in {x \in Range(DeployIntoAppCopies(o))
                       \cup (IF new_project
                             THEN Range(DeployIntoProjectCopies(o)) ELSE {}) :
                   CopyDecision(f, x[2], IF Len(x[2]) = 3 THEN AppForcedOverwrite
                                         ELSE ProjectForcedOverwrite,
                                BLANK_FILES) = "advise"}}
    \cup (IF Exists(f, SettingsFile(o))
          THEN {Msg("please merge the contents", SettingsFile(o), <<>>)}
          ELSE {})

\* lines 629-634: the call of path_utils.deploy_into as it is recorded
DeployIntoCall(o, new_project) ==
    <<IF new_project THEN "deploy_into(new_project=True)"
      ELSE "deploy_into(new_project=False)", InstallDir(o)>>

\* lines 611-647: the function deploy_askbot, called by askbot_setup_orig
DeployAskbotOrig ==
    /\ pc = "deploy_orig"
    /\ LET new == orig_create_new_project(fs, options)
           made == create_path(fs, InstallDir(options))
       IN /\ options' = [options EXCEPT
                           !.staticfiles_app = "'django.contrib.staticfiles',",
                           !.auth_context_processor =
                               "django.contrib.auth.context_processors.auth"]
          /\ fs' = deploy_into(made, options', new, localExists)
          /\ ops' = ops \cup {<<"create_path", InstallDir(options)>>,
                              DeployIntoCall(options, new)}
          /\ out' = out \cup DeployIntoMessages(made, options, new)
                        \cup {IF new THEN Note("HOW_TO_DEPLOY_NEW")
                              ELSE Note("HOW_TO_ADD_ASKBOT_TO_DJANGO")}
    /\ written' = written \cup Changed(fs, fs')
    /\ Running("hints")
    /\ UNCHANGED <<entry, args, localExists, cwdFiles, cwdDirs, directory, idx,
                   value, copy_list, prompts, fsStart, fsPrev, run>>

\* lines 304-315 (592-603): what is printed for an engine whose Python
\* binding cannot be imported
NextStepHints(engine, importable) ==
    IF importable THEN {}
    ELSE IF engine = "postgresql_psycopg2"
         THEN {Note("NEXT STEPS: install python binding for postgresql"),
               Note("pip install psycopg2")}
    ELSE IF engine = "mysql"
         THEN {Note("NEXT STEP: install python binding for mysql"),
               Note("pip install mysql-python")}
    ELSE {}

\* lines 304-315 (592-603): the import of the binding succeeds or fails with
\* the packages installed; then the entry point returns
NextSteps ==
    /\ pc = "hints"
    /\ \E importable \in BOOLEAN :
         out' = out \cup NextStepHints(options.database_engine, importable)
    /\ Exit(0, "")
    /\ UNCHANGED <<entry, args, localExists, cwdFiles, cwdDirs, fs, options,
                   directory, idx, value, copy_list, prompts, ops, written,
                   fsStart, fsPrev, run>>

\* the operator runs the installer again, with the same command line, after
\* a run that completed
Rerun ==
    /\ pc = "done"
    /\ exitStatus = 0
    /\ run < MaxRuns
    /\ run' = run + 1
    /\ fsPrev' = fs
    /\ fsStart' = fs
    /\ options' = ParsedOptions(entry, args)
    /\ directory' = None
    /\ idx' = 0
    /\ value' = None
    /\ copy_list' = <<>>
    /\ out' = {}
    /\ prompts' = {}
    /\ ops' = {}
    /\ written' = {}
    /\ pc' = "start"
    /\ exitStatus' = -1
    /\ error' = ""
    /\ UNCHANGED <<entry, args, localExists, cwdFiles, cwdDirs, fs>>
----------------------------------------------------------------------------
\* Specifications

\* one invocation of an entry point
Next ==
    \/ Start
    \/ AskInstallDirectory
    \/ SelectEngine
    \/ SkipCollect
    \/ CollectMissingOptions
    \/ AskDatabaseFile
    \/ ConfirmDatabaseFile
    \/ AskDatabaseKey
    \/ Interrupt
    \/ MapEngine
    \/ DryRun
    \/ DeployAskbot
    \/ CreateProject
    \/ CopyProjectFile
    \/ CreateApp
    \/ CopyAppFile
    \/ RenderFile
    \/ AppendSettings
    \/ Finish
    \/ DeployAskbotOrig
    \/ NextSteps

Spec == Init /\ [][Next]_vars

\* repeated invocations with the same command line
NextRepeat == Next \/ Rerun

SpecRepeat == InitRepeat /\ [][NextRepeat]_vars

----------------------------------------------------------------------------
\* Properties

\* the run is about to handle one (src, dst) of a copy list / the render list
CopyStep ==
    \/ pc = "project_copy" /\ idx <= Len(copy_list)
    \/ pc = "app_copy" /\ idx <= Len(copy_list)
CopyItem == copy_list[idx]
CopyForced == IF pc = "project_copy" THEN ProjectForcedOverwrite ELSE AppForcedOverwrite
RenderStep == pc = "render" /\ idx <= Len(RenderList(options))

\* f with the content of p replaced by data, nothing else touched
OnlyWrites(f, g, p, data) ==
    /\ DOMAIN g = DOMAIN f \cup {p}
    /\ g[p] = File(data)
    /\ \A q \in DOMAIN f \ {p} : g[q] = f[q]

\* C1: a second run with the same command line, after a run that completed,
\* leaves the filesystem exactly as the first run left it.
C1_SecondRunChangesNothing ==
    (run > 1 /\ pc = "done" /\ exitStatus = 0) => fs = fsPrev

\* C2: a Render whose destination exists leaves the filesystem unchanged and
\* emits only the advisory message; a Render whose destination is absent
\* creates it with the template rendered against the options of the run.
\* Stated for the steps of the operation, not for an operator interrupt that
\* arrives before it.
C2_RenderNeverOverwrites ==
    [][(RenderStep /\ error' /= "KeyboardInterrupt") =>
         LET src == RenderList(options)[idx][1]
             dst == RenderList(options)[idx][2]
         IN IF dst \in DOMAIN fs
            THEN /\ fs' = fs
                 /\ out' = out \cup {Msg("please merge the contents", dst, <<>>)}
            ELSE OnlyWrites(fs, fs', dst, RenderedData(src, options))]_vars

\* C2 witness: one run skipped the existing settings file with the advisory
\* message and rendered an absent file.
C2_Witness ==
    /\ pc = "append"
    /\ Exists(fsStart, SettingsFile(options))
    /\ fs[SettingsFile(options)] = fsStart[SettingsFile(options)]
    /\ Msg("please merge the contents", SettingsFile(options), <<>>) \in out
    /\ Join(AppDir(options), "crontab") \in written

\* C3: every Copy follows the policy table: absent -> copied; present and
\* forced -> copied over; present and skipped silently -> untouched, nothing
\* printed but the line every copy prints; present and in neither set ->
\* untouched, advisory message naming both files.  A copy step never ends
\* the run with an error.  Stated for the steps of the operation, not for an
\* operator interrupt that arrives before it.
C3_CopyPolicy ==
    [][(CopyStep /\ error' /= "KeyboardInterrupt") =>
         LET src == CopyItem[1]
             dst == CopyItem[2]
             line == Msg("to from", dst, src)
         IN /\ pc' /= "done"
            /\ CASE dst \notin DOMAIN fs ->
                      OnlyWrites(fs, fs', dst, SourceData(src))
                 [] dst \in DOMAIN fs /\ Basename(dst) \in CopyForced ->
                      OnlyWrites(fs, fs', dst, SourceData(src))
                 [] dst \in DOMAIN fs /\ Basename(dst) \notin CopyForced
                      /\ Basename(dst) \in BLANK_FILES ->
                      fs' = fs /\ out' = out \cup {line}
                 [] OTHER ->
                      /\ fs' = fs
                      /\ out' = out \cup {line, Msg("you already have one", dst, src)}]_vars

\* C3 witness: one run has met all four rows of the table.
C3_Witness ==
    /\ pc = "render"
    /\ Exists(fsStart, Join(AppDir(options), "urls.py"))
    /\ fs[Join(AppDir(options), "urls.py")] =
         File(SourceData(SetupTemplate("urls.py")))
    /\ fs[Join(AppDir(options), "__init__.py")] = File(UserData)
    /\ fs[Join(AppDir(options), "django.wsgi")] = File(UserData)
    /\ Msg("you already have one", Join(AppDir(options), "django.wsgi"),
           SetupTemplate("django.wsgi")) \in out
    /\ Join(AppDir(options), "celery_app.py") \in written

\* C4: the local settings are appended only in a run whose Render wrote the
\* settings file, the file being absent before the run; a settings file that
\* exists before a run without force has the same content after it.
C4_AppendOnlyAfterFreshRender ==
    /\ <<"append", SettingsFile(options)>> \in ops =>
         /\ <<"render", SettingsFile(options)>> \in ops
         /\ ~Exists(fsStart, SettingsFile(options))
    /\ (pc = "done" /\ ~args.force /\ clean_directory(options.dir_name) /= None
          /\ Exists(fsStart, SettingsFile(options))) =>
         fs[SettingsFile(options)] = fsStart[SettingsFile(options)]

\* C5: over an existing project without force, deploy_askbot skips the
\* project-level operations, still creates the app directory and renders the
\* settings, and ends with the "add to existing project" message.  Stated for
\* the runs the operator did not interrupt.
C5_ExistingProjectWithoutForce ==
    (/\ pc = "done"
     /\ error /= "KeyboardInterrupt"
     /\ <<"deploy_askbot", InstallDir(options)>> \in ops
     /\ ~args.force
     /\ Exists(fsStart, InstallDir(options))
     /\ has_existing_django_project(fsStart, InstallDir(options)))
    => /\ error = ""
       /\ <<"create_path", LogDir(options)>> \notin ops
       /\ <<"touch", LogFile(options)>> \notin ops
       /\ <<"copy", Join(InstallDir(options), "manage.py")>> \notin ops
       /\ <<"create_path", AppDir(options)>> \in ops
       /\ Note("HOW_TO_ADD_ASKBOT_TO_DJANGO") \in out

\* C6: the configuration handed to the installer follows the engine table:
\* sqlite has a non-empty name, and user, password, host and port were not
\* asked for and carry no value; the networked engines have a non-empty
\* name, user and password.
C6_EngineFieldTable ==
    pc = "deploy" =>
      IF options.database_engine = "sqlite3"
      THEN /\ options.database_name \notin {None, ""}
           /\ \A k \in Range(db_keys) \ {"database_name"} :
                k \notin prompts /\ options[k] = None
      ELSE \A k \in {"database_name", "database_user", "database_password"} :
             options[k] \notin {None, ""}

\* C7: every configuration handed to the installer has a secret_key, empty
\* with --no-secret-key and non-empty otherwise.
C7_SecretKey ==
    pc = "deploy" =>
      IF args.no_secret_key THEN options.secret_key = ""
      ELSE options.secret_key \notin {"", Missing}

\* C8: a database file name accepted at the dialog is not a directory, not
\* a reserved file name and not the log directory name, and is an existing
\* file only after the operator agreed to reuse it.
C8_ReservedNames ==
    (pc = "map" /\ options.database_engine = "2" /\ "database_name" \in prompts)
    => /\ options.database_name \notin cwdDirs
       /\ options.database_name \notin Range(FILES_TO_CREATE)
       /\ options.database_name /= LOG_DIR_NAME
       /\ options.database_name \in cwdFiles => "use it anyway" \in prompts

\* C9: a run with --dry-run never reaches deploy_askbot or any installer
\* operation and leaves the filesystem as it found it.
C9_DryRunTouchesNothing ==
    args.dry_run =>
      /\ ops = {}
      /\ written = {}
      /\ fs = fsStart
      /\ pc \notin {"deploy", "project", "project_copy", "app", "app_copy",
                    "render", "append", "finish"}

\* C9 witness: a dry run has resolved its options, dumped them and ended.
C9_Witness ==
    /\ args.dry_run
    /\ pc = "done"
    /\ Note("pprint") \in out
    /\ options.database_engine \in Range(database_engine_codes)

\* a required value the command line does not supply
RequiredValueAbsent(a) ==
    \/ clean_directory(a.dir_name) = None
    \/ a.database_engine = None
    \/ a.database_name = None

\* C10: with --no-input no dialog is issued, and a run that lacks a required
\* value ends with a missing-required-value error before the installer, unless
\* the operator interrupted it first.
C10_NoInputNeverPrompts ==
    ~args.interactive =>
      /\ prompts = {}
      /\ (pc = "done" /\ RequiredValueAbsent(args)
            /\ error /= "KeyboardInterrupt") =>
           /\ error = "MissingRequiredValue"
           /\ ops = {}

\* the engine code the command line supplies, as the operator typed it
SuppliedEngineCode(a) ==
    CASE a.database_engine = "int:1" -> "1"
      [] a.database_engine = "int:2" -> "2"
      [] a.database_engine = "int:3" -> "3"
      [] a.database_engine = "int:4" -> "4"
      [] a.database_engine \in DATABASE_ENGINE_CHOICES -> a.database_engine
      [] OTHER -> None

\* the run is past the engine step of lines 269-274 and before line 291
EngineResolved == pc \in {"collect", "ask_dbfile", "confirm_dbfile", "ask_db", "map"}

\* C11: a valid engine code of the command line is used as given with no
\* engine dialog; an absent one is asked for; either way the engine is then
\* one of the four codes, so that the lookup of line 290 succeeds.
C11_EngineResolution ==
    /\ SuppliedEngineCode(args) /= None => "database_engine" \notin prompts
    /\ EngineResolved =>
         /\ options.database_engine \in DOMAIN database_engine_codes
         /\ SuppliedEngineCode(args) /= None =>
              options.database_engine = SuppliedEngineCode(args)

\* the run ended because the operator interrupted it, at a dialog or at any
\* other statement of the try block: a KeyboardInterrupt that is not the one
\* line 300 raises after the dump
OperatorInterrupted ==
    /\ pc = "done"
    /\ error = "KeyboardInterrupt"
    /\ Note("pprint") \notin out

\* C12: a run ends with status 1 exactly when the operator interrupted it;
\* every other run, a dry run included, ends with status 0.  Stated
\* for the runs that __call__ itself ends (return or sys.exit), not for those
\* an uncaught exception ends.
C12_ExitStatus ==
    (pc = "done" /\ error \in {"", "KeyboardInterrupt"}) =>
      /\ exitStatus = 1 <=> OperatorInterrupted
      /\ ~OperatorInterrupted => exitStatus = 0

\* destinations of the app-level operations reached in this run
AppLevelDestinations ==
    {o[2] : o \in {x \in ops : x[1] \in {"copy", "render", "append"} /\ Len(x[2]) = 3}}

\* C13: every app-level destination is install directory / configured app
\* name / file name, every project-level destination is install directory /
\* fixed path, and nothing is written outside the install directory.
C13_DestinationsFollowNames ==
    /\ \A p \in AppLevelDestinations :
         SubSeq(p, 1, 2) = <<options.dir_name, args.app_name>>
    /\ \A o \in ops : o[2][1] = options.dir_name
    /\ \A p \in written : p[1] = options.dir_name

====
